---- MODULE Spec2Model ----
(***************************************************************************)
(* StoryLLM.py: a decoder-only transformer language model                  *)
(* (GPTLanguageModel: forward, generate), its training loop (batch_gh) and *)
(* the construction of its attention blocks.                               *)
(*                                                                         *)
(* Tensors are modelled by their shape and by the provenance of their      *)
(* entries: a token sequence is a sequence of ids, the logits of a forward *)
(* pass are, per position, the token at that position and the set of       *)
(* positions the causal mask lets it attend to, a loss is a number drawn   *)
(* from LossVals.  A batch is one row: every operation of the source acts  *)
(* on each row of the batch dimension alike.                               *)
(***************************************************************************)
EXTENDS Integers, Sequences, FiniteSets, TLC

(* Hyperparameters of lines 13-18, scaled down so that the state space is  *)
(* finite: the source sets vocab_size = 50257 and block_size = 128.        *)
vocab_size == 2
block_size == 2

(* Bounds on the inputs of the calls. *)
MaxPrefix == 3
MaxNewTokens == 2
MaxSeqLen == 4
MaxEpochs == 2
MaxBatches == 2

(* Bounds on the constructor's arguments (ConstructSpec). *)
MaxEmbd == 6
MaxHeads == 4
MaxLayers == 2

(* Line 302: progress is printed every 100 batches. *)
ReportEvery == 100

VARIABLES
  model,      \* the GPTLanguageModel object: block_size, tril, training, params, grad
  grad_on,    \* torch's gradient mode (torch.no_grad switches it off)
  pc,         \* position of the single thread of control
  gen,        \* frame of generate
  tr,         \* frame of batch_gh
  fwd,        \* the last call of GPTLanguageModel.forward: its arguments and results
  steps,      \* the optimizer steps taken by the running batch_gh call, in order
  stdout,     \* what the current call has printed
  cfg,        \* the constructor's arguments (ConstructSpec)
  built       \* the modules the constructor produced (ConstructSpec)

vars == <<model, grad_on, pc, gen, tr, fwd, steps, stdout, cfg, built>>

Min(a, b) == IF a <= b THEN a ELSE b

Vocab == 0 .. (vocab_size - 1)

SeqsOf(S, lo, hi) == UNION {[1..n -> S] : n \in lo..hi}

----------------------------------------------------------------------------
(* A mask built with torch.triu in place of torch.tril. *)
TriuMask(n) == [i \in 1..n |-> [j \in 1..n |-> IF j >= i THEN 1 ELSE 0]]

(* Head.__init__, line 118: torch.tril(torch.ones(block_size, block_size)) *)
Tril(n) == [i \in 1..n |-> [j \in 1..n |-> IF j <= i THEN 1 ELSE 0]]

(* Head.forward, line 131: self.tril[:T, :T]; a slice past the end of the  *)
(* buffer stops at the end.                                                *)
MaskSlice(tril, T) ==
  [i \in 1..Min(T, Len(tril)) |-> [j \in 1..Min(T, Len(tril)) |-> tril[i][j]]]

(* Head.forward, line 131: masked_fill broadcasts the mask to the T x T    *)
(* scores.  A slice as large as the scores fits; a 1 x 1 slice is spread   *)
(* over every entry; any other smaller slice makes the call raise.         *)
MaskFits(tril, T) == T <= Len(tril) \/ Len(tril) = 1

(* Head.forward, lines 130-135: the keys position i gives a non-zero       *)
(* weight to, i.e. those whose score is not filled with -inf.  With a      *)
(* 1 x 1 slice its single entry decides for every pair of positions.       *)
Attend(tril, T) ==
  LET n == Min(T, Len(tril))
      m == MaskSlice(tril, T)
  IN  IF n = 1
      THEN [i \in 1..T |-> {j \in 1..T : m[1][1] # 0}]
      ELSE [i \in 1..n |-> {j \in 1..n : m[i][j] # 0}]

(* GPTLanguageModel.forward, lines 214-215: T = min(T, block_size);        *)
(* idx = idx[:, :T]                                                        *)
Truncate(bs, s) == SubSeq(s, 1, Min(Len(s), bs))

NoTargets == <<-1>>

(* GPTLanguageModel.forward, lines 210-245.  targets = NoTargets stands    *)
(* for targets=None.  The logits of position t come from the token at t    *)
(* and the positions the mask lets t attend to; the loss pairs the logits  *)
(* of position t with targets[t] (lines 239-243).  dropout: the dropout    *)
(* layers act (the model is in training mode); grad: torch records the     *)
(* graph of the call.                                                      *)
Forward(m, idx, targets, caller, grad) ==
  LET T    == Min(Len(idx), m.block_size)
      x    == Truncate(m.block_size, idx)
      att  == Attend(m.tril, T)
      tg   == IF targets = NoTargets THEN <<>> ELSE Truncate(T, targets)
  IN  [caller  |-> caller,
       status  |-> IF ~MaskFits(m.tril, T) THEN "error"
                   ELSE IF targets # NoTargets /\ Len(tg) # T THEN "error"
                   ELSE "ok",
       arg     |-> idx,
       T_in    |-> Len(idx),
       T       |-> T,
       idx     |-> x,
       pos     |-> [t \in 1..T |-> t - 1],
       mask    |-> MaskSlice(m.tril, T),
       logits  |-> IF ~MaskFits(m.tril, T) THEN <<>>
                   ELSE [t \in 1..T |-> [tok |-> x[t], ctx |-> att[t]]],
       has_targets |-> targets # NoTargets,
       targets |-> tg,
       pairs   |-> IF MaskFits(m.tril, T) /\ targets # NoTargets /\ Len(tg) = T
                   THEN [t \in 1..T |-> [tok |-> x[t], target |-> tg[t]]]
                   ELSE <<>>,
       dropout |-> m.training,
       grad    |-> grad]

NoFwd == [caller |-> "none"]

----------------------------------------------------------------------------
(* The state after line 269: the model is built from the hyperparameters   *)
(* (line 262), nn.Module starts in training mode, no gradient exists yet.  *)
(* params counts the updates applied to the parameters; grad is the set of *)
(* backward passes accumulated in the parameters' .grad.                   *)
NewModel ==
  [block_size |-> block_size,
   tril       |-> Tril(block_size),
   training   |-> TRUE,
   params     |-> 0,
   grad       |-> {}]

NoCfg == [n_embd |-> 0, n_head |-> 0, n_layer |-> 0]
NotBuilt == [status |-> "none"]
NoGen == [active |-> FALSE]
NoTr  == [active |-> FALSE]

Init ==
  /\ model = NewModel
  /\ grad_on = TRUE
  /\ pc = "idle"
  /\ gen = NoGen
  /\ tr = NoTr
  /\ fwd = NoFwd
  /\ steps = <<>>
  /\ stdout = <<>>
  /\ cfg = NoCfg
  /\ built = NotBuilt

----------------------------------------------------------------------------
(* generate, lines 247-256 *)

(* generate without the crop of line 250. *)
CropNothing(bs, s) == s

(* line 250: idx[:, -self.block_size:] *)
Crop(bs, s) == SubSeq(s, Len(s) - Min(Len(s), bs) + 1, Len(s))

(* The sampled id appended to the cropped context in place of the whole   *)
(* sequence.                                                               *)
CatOntoCrop(s, tok) == Append(Crop(block_size, s), tok)

(* line 255: torch.cat((idx, idx_next), dim=1) *)
Cat(s, tok) == Append(s, tok)

(* line 252: logits[:, -1, :] *)
LastRow(logits) == logits[Len(logits)]

(* line 254: torch.multinomial over the softmax of the last logits: any id *)
(* of the vocabulary.                                                      *)
Samples == 0 .. (vocab_size - 1)

CallGenerate ==
  /\ pc = "idle"
  /\ \E p \in SeqsOf(Vocab, 1, MaxPrefix), k \in 0..MaxNewTokens :
       gen' = [active |-> TRUE, prefix |-> p, max_new_tokens |-> k, iter |-> 0,
               idx |-> p, idx_cond |-> <<>>, cond |-> "unbound", grad_before |-> grad_on,
               mode_before |-> model.training, returned |-> FALSE]
  /\ grad_on' = FALSE
  /\ pc' = "gen_loop"
  /\ UNCHANGED <<model, tr, fwd, steps, stdout, cfg, built>>

(* lines 249-251 *)
GenForward ==
  /\ pc = "gen_loop"
  /\ gen.iter < gen.max_new_tokens
  /\ LET c == Crop(model.block_size, gen.idx)
     IN  /\ fwd' = Forward(model, c, NoTargets, "generate", grad_on)
         /\ gen' = [gen EXCEPT !.idx_cond = c]
  /\ pc' = "gen_sample"
  /\ UNCHANGED <<model, grad_on, tr, steps, stdout, cfg, built>>

(* lines 252-255: logits[:, -1, :], softmax, multinomial, cat *)
GenSample ==
  /\ pc = "gen_sample"
  /\ fwd.status = "ok"
  /\ \E tok \in Samples :
       gen' = [gen EXCEPT !.idx = Cat(gen.idx, tok),
                          !.cond = LastRow(fwd.logits),
                          !.iter = gen.iter + 1]
  /\ pc' = "gen_loop"
  /\ UNCHANGED <<model, grad_on, tr, fwd, steps, stdout, cfg, built>>

(* line 256 *)
GenReturn ==
  /\ pc = "gen_loop"
  /\ gen.iter >= gen.max_new_tokens
  /\ gen' = [gen EXCEPT !.returned = TRUE]
  /\ grad_on' = gen.grad_before
  /\ pc' = "returned"
  /\ UNCHANGED <<model, tr, fwd, steps, stdout, cfg, built>>

----------------------------------------------------------------------------
(* batch_gh, lines 272-332 *)

(* A loss is a non-negative number; two values stand for all of them. *)
LossVals == {0, 1}

RECURSIVE Sum(_)
Sum(l) == IF l = <<>> THEN 0 ELSE Head(l) + Sum(Tail(l))

(* np.mean of a list, lines 306 and 322: the sum over the length, kept as  *)
(* a fraction (a length of 0 is numpy's nan).                              *)
Mean(l) == [num |-> Sum(l), den |-> Len(l)]

(* an entry of np.zeros(epochs), lines 273-274 *)
Zero == [num |-> 0, den |-> 1]

(* Targets cut like the inputs: not shifted. *)
TargetsUnshifted(row) == SubSeq(row, 1, Len(row) - 1)

(* lines 286-287 and 316-317: targets = inputs[:, 1:]; inputs = inputs[:, :-1] *)
ShiftTargets(row) == SubSeq(row, 2, Len(row))
ShiftInputs(row) == SubSeq(row, 1, Len(row) - 1)

(* The rows the loaders yield: every length from 2 to MaxSeqLen, and in   *)
(* each row one position holds the last id of the vocabulary and the       *)
(* others id 0, so that a row read at a shifted position reads differently.*)
MarkedRow(L, k) == [t \in 1..L |-> IF t = k THEN vocab_size - 1 ELSE 0]
Rows == {MarkedRow(L, k) : L \in 2..MaxSeqLen, k \in 1..MaxSeqLen}

(* lines 272-274, called as line 335 calls it: on a model whose           *)
(* parameters are still those of its construction.                         *)
CallBatchGh ==
  /\ pc = "idle"
  /\ model.params = 0
  /\ \E epochs \in 0..MaxEpochs, nt \in 0..MaxBatches, ne \in 0..MaxBatches :
       /\ tr' = [active |-> TRUE, epochs |-> epochs, n_train |-> nt, n_test |-> ne,
                 it |-> 0, i |-> 0, j |-> 0,
                 train_loss |-> "unbound", test_loss |-> "unbound",
                 train_losses |-> [e \in 1..epochs |-> Zero],
                 test_losses |-> [e \in 1..epochs |-> Zero],
                 row |-> <<>>, inputs |-> <<>>, targets |-> <<>>, loss |-> "unbound",
                 returned |-> FALSE]
  /\ pc' = "epoch_head"
  /\ UNCHANGED <<model, grad_on, gen, fwd, steps, stdout, cfg, built>>

(* An epoch that starts without model.train(). *)
EpochStartNoTrain ==
  /\ pc = "epoch_head"
  /\ tr.it < tr.epochs
  /\ tr' = [tr EXCEPT !.train_loss = <<>>, !.i = 0]
  /\ pc' = "train_iter"
  /\ UNCHANGED <<model, grad_on, gen, fwd, steps, stdout, cfg, built>>

(* lines 276-279: the next epoch starts: model.train(), train_loss = [] *)
EpochStart ==
  /\ pc = "epoch_head"
  /\ tr.it < tr.epochs
  /\ model' = [model EXCEPT !.training = TRUE]
  /\ tr' = [tr EXCEPT !.train_loss = <<>>, !.i = 0]
  /\ pc' = "train_iter"
  /\ UNCHANGED <<grad_on, gen, fwd, steps, stdout, cfg, built>>

(* lines 281-287: the loader yields a batch; inputs and targets are cut    *)
(* from it                                                                 *)
TrainFetch ==
  /\ pc = "train_iter"
  /\ tr.i < tr.n_train
  /\ \E row \in Rows :
       tr' = [tr EXCEPT !.row = row, !.inputs = ShiftInputs(row),
                        !.targets = ShiftTargets(row)]
  /\ pc' = "zero_grad"
  /\ UNCHANGED <<model, grad_on, gen, fwd, steps, stdout, cfg, built>>

(* A batch whose gradients are not zeroed. *)
ZeroGradSkipped ==
  /\ pc = "zero_grad"
  /\ pc' = "forward"
  /\ UNCHANGED <<model, grad_on, gen, tr, fwd, steps, stdout, cfg, built>>

(* line 290: optimizer.zero_grad() *)
ZeroGrad ==
  /\ pc = "zero_grad"
  /\ model' = [model EXCEPT !.grad = {}]
  /\ pc' = "forward"
  /\ UNCHANGED <<grad_on, gen, tr, fwd, steps, stdout, cfg, built>>

(* line 293: outputs, loss = model(inputs, targets) *)
TrainForward ==
  /\ pc = "forward"
  /\ LET f == Forward(model, tr.inputs, tr.targets, "train", grad_on)
     IN  /\ fwd' = f
         /\ IF f.status = "ok"
            THEN /\ \E l \in LossVals : tr' = [tr EXCEPT !.loss = l]
                 /\ pc' = "backward"
            ELSE /\ tr' = tr
                 /\ pc' = "raised"
  /\ UNCHANGED <<model, grad_on, gen, steps, stdout, cfg, built>>

(* line 296: loss.backward() adds this batch's gradient, taken at the      *)
(* current parameters, to the parameters' .grad.  The batch, the logits    *)
(* and the targets are not read again.                                     *)
Backward ==
  /\ pc = "backward"
  /\ fwd.grad
  /\ model' = [model EXCEPT !.grad = model.grad \cup
                 {[epoch |-> tr.it, batch |-> tr.i, params |-> model.params]}]
  /\ tr' = [tr EXCEPT !.row = <<>>, !.inputs = <<>>, !.targets = <<>>]
  /\ fwd' = NoFwd
  /\ pc' = "opt_step"
  /\ UNCHANGED <<grad_on, gen, steps, stdout, cfg, built>>

(* line 297: optimizer.step() applies the accumulated gradient *)
OptimizerStep ==
  /\ pc = "opt_step"
  /\ model' = [model EXCEPT !.params = model.params + 1]
  /\ steps' = Append(steps, [epoch |-> tr.it, batch |-> tr.i, grad |-> model.grad,
                             params |-> model.params, training |-> model.training,
                             recorded |-> Len(tr.train_loss)])
  /\ pc' = "record"
  /\ UNCHANGED <<grad_on, gen, tr, fwd, stdout, cfg, built>>

(* lines 299-303: train_loss.append(loss.item()), the progress line *)
RecordLoss ==
  /\ pc = "record"
  /\ tr' = [tr EXCEPT !.train_loss = Append(tr.train_loss, tr.loss), !.i = tr.i + 1]
  /\ stdout' = IF (tr.i + 1) % ReportEvery = 0
               THEN Append(stdout, [kind |-> "batch", epoch |-> tr.it + 1,
                                    batch |-> tr.i + 1, loss |-> tr.loss])
               ELSE stdout
  /\ pc' = "train_iter"
  /\ UNCHANGED <<model, grad_on, gen, fwd, steps, cfg, built>>

(* lines 306-310: the loader is exhausted: the mean, model.eval(),         *)
(* test_loss = [], torch.no_grad() is entered                              *)
TrainDone ==
  /\ pc = "train_iter"
  /\ tr.i >= tr.n_train
  /\ tr' = [tr EXCEPT !.train_loss = Mean(tr.train_loss), !.test_loss = <<>>, !.j = 0]
  /\ model' = [model EXCEPT !.training = FALSE]
  /\ grad_on' = FALSE
  /\ pc' = "eval_iter"
  /\ UNCHANGED <<gen, fwd, steps, stdout, cfg, built>>

(* lines 311-317 *)
EvalFetch ==
  /\ pc = "eval_iter"
  /\ tr.j < tr.n_test
  /\ \E row \in Rows :
       tr' = [tr EXCEPT !.row = row, !.inputs = ShiftInputs(row),
                        !.targets = ShiftTargets(row)]
  /\ pc' = "eval_forward"
  /\ UNCHANGED <<model, grad_on, gen, fwd, steps, stdout, cfg, built>>

(* line 319 *)
EvalForward ==
  /\ pc = "eval_forward"
  /\ LET f == Forward(model, tr.inputs, tr.targets, "eval", grad_on)
     IN  /\ fwd' = f
         /\ IF f.status = "ok"
            THEN /\ \E l \in LossVals : tr' = [tr EXCEPT !.loss = l]
                 /\ pc' = "eval_record"
            ELSE /\ tr' = tr
                 /\ pc' = "raised"
  /\ UNCHANGED <<model, grad_on, gen, steps, stdout, cfg, built>>

(* An evaluation batch that ends with an optimizer step, as a training     *)
(* batch does.                                                             *)
EvalRecordWithStep ==
  /\ pc = "eval_record"
  /\ tr' = [tr EXCEPT !.test_loss = Append(tr.test_loss, tr.loss), !.j = tr.j + 1,
                      !.row = <<>>, !.inputs = <<>>, !.targets = <<>>]
  /\ model' = [model EXCEPT !.params = model.params + 1]
  /\ fwd' = NoFwd
  /\ pc' = "eval_iter"
  /\ UNCHANGED <<grad_on, gen, steps, stdout, cfg, built>>

(* line 320: test_loss.append(loss.item()) *)
EvalRecord ==
  /\ pc = "eval_record"
  /\ tr' = [tr EXCEPT !.test_loss = Append(tr.test_loss, tr.loss), !.j = tr.j + 1,
                      !.row = <<>>, !.inputs = <<>>, !.targets = <<>>]
  /\ fwd' = NoFwd
  /\ pc' = "eval_iter"
  /\ UNCHANGED <<model, grad_on, gen, steps, stdout, cfg, built>>

(* line 322, and the end of the with block: gradients are on again *)
EvalDone ==
  /\ pc = "eval_iter"
  /\ tr.j >= tr.n_test
  /\ tr' = [tr EXCEPT !.test_loss = Mean(tr.test_loss)]
  /\ grad_on' = TRUE
  /\ pc' = "save"
  /\ UNCHANGED <<model, gen, fwd, steps, stdout, cfg, built>>

(* The two means stored in each other's array. *)
SaveLossesSwapped ==
  /\ pc = "save"
  /\ tr' = [tr EXCEPT !.train_losses[tr.it + 1] = tr.test_loss,
                      !.test_losses[tr.it + 1] = tr.train_loss,
                      !.it = tr.it + 1]
  /\ stdout' = Append(stdout, [kind |-> "epoch", epoch |-> tr.it + 1,
                               train |-> tr.train_loss, test |-> tr.test_loss])
  /\ pc' = "epoch_head"
  /\ UNCHANGED <<model, grad_on, gen, fwd, steps, cfg, built>>

(* lines 325-330: the epoch's losses are stored and printed *)
SaveLosses ==
  /\ pc = "save"
  /\ tr' = [tr EXCEPT !.train_losses[tr.it + 1] = tr.train_loss,
                      !.test_losses[tr.it + 1] = tr.test_loss,
                      !.it = tr.it + 1]
  /\ stdout' = Append(stdout, [kind |-> "epoch", epoch |-> tr.it + 1,
                               train |-> tr.train_loss, test |-> tr.test_loss])
  /\ pc' = "epoch_head"
  /\ UNCHANGED <<model, grad_on, gen, fwd, steps, cfg, built>>

(* line 332 *)
BatchGhReturn ==
  /\ pc = "epoch_head"
  /\ tr.it >= tr.epochs
  /\ tr' = [tr EXCEPT !.returned = TRUE]
  /\ pc' = "returned"
  /\ UNCHANGED <<model, grad_on, gen, fwd, steps, stdout, cfg, built>>

(* The caller has taken the result of the call (line 335); the frame is    *)
(* gone, and the log of the call is set aside.  The model stays as the     *)
(* call left it.                                                           *)
CallerResumes ==
  /\ pc = "returned"
  /\ gen' = NoGen
  /\ tr' = NoTr
  /\ fwd' = NoFwd
  /\ steps' = <<>>
  /\ stdout' = <<>>
  /\ pc' = "idle"
  /\ UNCHANGED <<model, grad_on, cfg, built>>

Next ==
  \/ CallGenerate
  \/ GenForward
  \/ GenSample
  \/ GenReturn
  \/ CallBatchGh
  \/ EpochStart
  \/ TrainFetch
  \/ ZeroGrad
  \/ TrainForward
  \/ Backward
  \/ OptimizerStep
  \/ RecordLoss
  \/ TrainDone
  \/ EvalFetch
  \/ EvalForward
  \/ EvalRecord
  \/ EvalDone
  \/ SaveLosses
  \/ BatchGhReturn
  \/ CallerResumes

Spec == Init /\ [][Next]_vars
----------------------------------------------------------------------------
(* Construction: GPTLanguageModel(vocab_size, n_embd, block_size, n_layer, *)
(* n_head), lines 191-200, with the arguments drawn from small sets.       *)

(* Block.__init__, line 179: head_size = n_embd // n_head *)
HeadSize(n_embd, n_head) == n_embd \div n_head

(* Block.__init__ (176-183), MultiHeadAttention.__init__ (141-145) and     *)
(* Head.__init__ (113-120): the widths of the linear maps of one block.    *)
(* No statement of these constructors compares n_embd with n_head.         *)
BuildBlock(n_embd, n_head) ==
  [head_size |-> HeadSize(n_embd, n_head),
   n_heads   |-> n_head,
   key_in    |-> n_embd,
   key_out   |-> HeadSize(n_embd, n_head),
   tril      |-> block_size,
   proj_in   |-> n_head * HeadSize(n_embd, n_head),
   proj_out  |-> n_embd]

(* lines 191-200.  With n_layer = 0 no Block is built; with n_head = 0 the *)
(* division of line 179 raises.                                            *)
BuildModel(c) ==
  IF c.n_layer > 0 /\ c.n_head = 0
  THEN [status |-> "ZeroDivisionError"]
  ELSE [status   |-> "constructed",
        n_embd   |-> c.n_embd,
        n_blocks |-> c.n_layer,
        block    |-> IF c.n_layer > 0 THEN BuildBlock(c.n_embd, c.n_head)
                     ELSE [head_size |-> 0]]

(* Head.forward, lines 122-136, and MultiHeadAttention.forward, 147-155,   *)
(* on an input of width n_embd.  With no heads line 151 has nothing to     *)
(* concatenate and torch.cat raises before any head runs.  Otherwise       *)
(* self.key(x) of line 124 raises when the input width is not              *)
(* key.in_features, so the assertion of line 128 is reached only when it   *)
(* holds; line 130 raises head_size to the power -0.5, which Python        *)
(* refuses for 0; the concatenated heads must be as wide as proj expects.  *)
BlockForward(b, width) ==
  IF b.n_heads = 0 THEN "RuntimeError"
  ELSE IF width # b.key_in THEN "RuntimeError"
  ELSE IF b.key_out = 0 THEN "ZeroDivisionError"
  ELSE IF b.n_heads * b.key_out # b.proj_in THEN "RuntimeError"
  ELSE "ok"

InitConstruct ==
  /\ model = NewModel
  /\ grad_on = TRUE
  /\ pc = "construct"
  /\ gen = NoGen
  /\ tr = NoTr
  /\ fwd = NoFwd
  /\ steps = <<>>
  /\ stdout = <<>>
  /\ cfg \in [n_embd : 1..MaxEmbd, n_head : 0..MaxHeads, n_layer : 0..MaxLayers]
  /\ built = NotBuilt

(* line 262 *)
Construct ==
  /\ pc = "construct"
  /\ built' = BuildModel(cfg)
  /\ pc' = IF BuildModel(cfg).status = "constructed" THEN "built" ELSE "rejected"
  /\ UNCHANGED <<model, grad_on, gen, tr, fwd, steps, stdout, cfg>>

(* The first forward pass of the constructed model, lines 218-233. *)
FirstForward ==
  /\ pc = "built"
  /\ built' = [built EXCEPT !.status =
                 IF built.n_blocks = 0 THEN "ran"
                 ELSE IF BlockForward(built.block, built.n_embd) = "ok" THEN "ran"
                 ELSE BlockForward(built.block, built.n_embd)]
  /\ pc' = "probed"
  /\ UNCHANGED <<model, grad_on, gen, tr, fwd, steps, stdout, cfg>>

NextConstruct ==
  \/ Construct
  \/ FirstForward

ConstructSpec == InitConstruct /\ [][NextConstruct]_vars

(* C6: a model whose embedding width is not divisible by its head count is *)
(* rejected at construction: no model object is produced.                  *)
C6_NonDivisibleRejected ==
  (pc # "construct" /\ cfg.n_layer > 0 /\ cfg.n_head > 0
     /\ cfg.n_embd % cfg.n_head # 0)
    => built.status \notin {"constructed", "ran"}
----------------------------------------------------------------------------
(* Properties of generate                                                  *)

InGenerate == gen.active /\ pc \in {"gen_loop", "gen_sample", "returned"}

(* C1: generate(prefix, k) with a prefix of n >= 1 tokens runs exactly k   *)
(* iterations and returns n + k tokens: the prefix unchanged, then k ids   *)
(* of [0, vocab_size).  It never stops early and never gets stuck.         *)
C1_GenerateExtendsByK ==
  InGenerate =>
    /\ gen.iter <= gen.max_new_tokens
    /\ Len(gen.idx) = Len(gen.prefix) + gen.iter
    /\ \A t \in 1..Len(gen.prefix) : gen.idx[t] = gen.prefix[t]
    /\ \A t \in (Len(gen.prefix) + 1)..Len(gen.idx) :
         gen.idx[t] >= 0 /\ gen.idx[t] < vocab_size
    /\ (pc = "returned" =>
          /\ gen.iter = gen.max_new_tokens
          /\ Len(gen.idx) = Len(gen.prefix) + gen.max_new_tokens)
    /\ (pc # "returned" => ENABLED (GenForward \/ GenSample \/ GenReturn))

(* The call of the end-to-end scenario: two tokens generated from a prefix *)
(* of three, with a context of two.                                        *)
C1_Witness ==
  /\ pc = "returned" /\ gen.active
  /\ Len(gen.prefix) = 3 /\ gen.max_new_tokens = 2 /\ Len(gen.idx) = 5

(* C2: in every iteration of generate the input of forward is the last     *)
(* min(len(sequence), context_length) tokens of the sequence, so forward   *)
(* truncates nothing, and the logits sampled from are those of the last    *)
(* position, which holds the most recent token.                            *)
C2_GenerateWindow ==
  /\ (gen.active /\ pc = "gen_sample") =>
       LET n == IF Len(gen.idx) <= model.block_size THEN Len(gen.idx)
                ELSE model.block_size
       IN  /\ fwd.caller = "generate"
           /\ fwd.T_in = n
           /\ fwd.T_in <= model.block_size
           /\ \A t \in 1..n : fwd.arg[t] = gen.idx[Len(gen.idx) - n + t]
           /\ fwd.T = fwd.T_in /\ fwd.idx = fwd.arg
           /\ Len(fwd.logits) = n
           /\ fwd.logits[n].tok = gen.idx[Len(gen.idx)]
  /\ (gen.active /\ pc \in {"gen_loop", "returned"} /\ gen.iter > 0) =>
       /\ gen.cond.tok = gen.idx[Len(gen.idx) - 1]
       /\ gen.cond.ctx = 1..Len(gen.idx_cond)

(* An iteration whose sequence is longer than the context: the window has  *)
(* slid.                                                                   *)
C2_Witness ==
  /\ gen.active /\ pc = "gen_sample"
  /\ Len(gen.idx) > model.block_size + 1
  /\ gen.iter >= 1

----------------------------------------------------------------------------
(* Properties of the causal mask                                           *)

(* C7: every forward pass masks with the top-left T x T corner of the      *)
(* lower-triangular matrix: position i attends to the positions <= i and   *)
(* to no other; T is at most the size of the stored mask; the stored mask  *)
(* is the matrix of its construction in every state.                       *)
C7_CausalMask ==
  /\ Len(model.tril) = block_size
  /\ \A i, j \in 1..block_size : model.tril[i][j] = (IF j <= i THEN 1 ELSE 0)
  /\ fwd.caller # "none" =>
       /\ fwd.status = "ok"
       /\ fwd.T <= Len(model.tril)
       /\ Len(fwd.mask) = fwd.T
       /\ \A i \in 1..fwd.T :
            /\ Len(fwd.mask[i]) = fwd.T
            /\ \A j \in 1..fwd.T : fwd.mask[i][j] = model.tril[i][j]
            /\ fwd.logits[i].ctx = {j \in 1..fwd.T : j <= i}

(* A training forward pass on as many positions as the mask has, with a    *)
(* position that must not see a later one.                                 *)
C7_Witness ==
  fwd.caller = "train" /\ fwd.T = Len(model.tril) /\ fwd.T >= 2
----------------------------------------------------------------------------
(* Properties of forward                                                   *)

(* C3, as the specification states it: a forward pass on more than         *)
(* context_length tokens is not rejected, the sequence is cut to           *)
(* context_length positions, and an event tells the caller so.             *)
C3_TruncationSurfaced ==
  (fwd.caller # "none" /\ fwd.T_in > model.block_size) =>
    /\ fwd.status = "ok"
    /\ Len(fwd.idx) = model.block_size
    /\ \E n \in 1..Len(stdout) : stdout[n].kind = "truncation"

(* C4: for a row s of L tokens the trainer passes inputs = s[0..L-2] and   *)
(* targets = s[1..L-1], in training and in evaluation; forward cuts both   *)
(* to the first min(L-1, context_length) positions, and the loss pairs the *)
(* logits of position t (the token s[t]) with the target s[t+1]: as many   *)
(* logits as targets.                                                      *)
C4_ShiftedTargets ==
  (tr.active /\ pc \in {"backward", "eval_record"}) =>
    LET s == tr.row
        L == Len(s)
        T == IF L - 1 <= model.block_size THEN L - 1 ELSE model.block_size
    IN  /\ fwd.caller = (IF pc = "backward" THEN "train" ELSE "eval")
        /\ Len(tr.inputs) = L - 1 /\ Len(tr.targets) = L - 1
        /\ \A t \in 1..(L - 1) : tr.inputs[t] = s[t] /\ tr.targets[t] = s[t + 1]
        /\ fwd.arg = tr.inputs
        /\ fwd.T = T
        /\ Len(fwd.logits) = T /\ Len(fwd.targets) = T /\ Len(fwd.pairs) = T
        /\ \A t \in 1..T :
             /\ fwd.logits[t].tok = s[t]
             /\ fwd.pairs[t].tok = s[t]
             /\ fwd.pairs[t].target = s[t + 1]

(* A training batch cut by forward whose marked token is a target and not  *)
(* an input of the positions kept.                                         *)
C4_Witness ==
  /\ tr.active /\ pc = "backward"
  /\ Len(tr.row) - 1 > model.block_size
  /\ tr.row[model.block_size + 1] # 0

----------------------------------------------------------------------------
(* Properties of batch_gh                                                  *)

TrainPcs == {"zero_grad", "forward", "backward", "opt_step", "record"}
EvalPcs == {"eval_iter", "eval_forward", "eval_record"}

(* No step taken from inside the evaluation pass changes the parameters,   *)
(* their gradients or the list of optimizer steps.                         *)
EvalStepKeepsParams ==
  pc \in EvalPcs =>
    (model'.params = model.params /\ model'.grad = model.grad /\ steps' = steps)

(* C5: the evaluation pass runs once per epoch, after the epoch's training *)
(* batches and only then; it runs with gradients off and takes no          *)
(* optimizer step: the parameters do not change during the pass.           *)
C5_EvalPassFrame ==
  /\ [](pc \in EvalPcs =>
          /\ ~grad_on
          /\ tr.i = tr.n_train
          /\ Len(steps) = (tr.it + 1) * tr.n_train
          /\ model.params = Len(steps)
          /\ tr.j <= tr.n_test
          /\ Len(tr.test_loss) = tr.j
          /\ (fwd.caller # "none" => fwd.caller = "eval" /\ ~fwd.grad))
  /\ []((tr.active /\ pc = "save") => tr.j = tr.n_test /\ tr.test_loss.den = tr.n_test)
  /\ []((tr.active /\ pc \in {"epoch_head", "returned"}) =>
          \A e \in 1..tr.it : tr.test_losses[e].den = tr.n_test)
  /\ [][EvalStepKeepsParams]_vars

(* The evaluation pass of the second epoch has gone through two batches. *)
C5_Witness ==
  tr.active /\ pc = "save" /\ tr.it = 1 /\ tr.n_test = 2 /\ tr.n_train = 2

(* C8: each training batch goes through zero_grad, forward, backward,      *)
(* optimizer step, record, in this order.  One optimizer step is taken per *)
(* batch; it applies the gradient of that batch alone, computed by a       *)
(* completed backward pass on the parameters the previous step left; the   *)
(* steps are taken in the order of the batches.                            *)
C8_StepOrder ==
  tr.active =>
    /\ model.params = Len(steps)
    /\ \A n \in 1..Len(steps) :
         /\ steps[n].batch < tr.n_train
         /\ steps[n].epoch * tr.n_train + steps[n].batch + 1 = n
         /\ steps[n].params = n - 1
         /\ steps[n].grad = {[epoch |-> steps[n].epoch, batch |-> steps[n].batch,
                              params |-> n - 1]}
         /\ steps[n].recorded = steps[n].batch
    /\ (pc \in {"train_iter", "zero_grad", "forward", "backward", "opt_step"} =>
          Len(steps) = tr.it * tr.n_train + tr.i)
    /\ (pc = "record" => Len(steps) = tr.it * tr.n_train + tr.i + 1)
    /\ (pc \in TrainPcs => Len(tr.train_loss) = tr.i)
    /\ (pc = "forward" => model.grad = {} /\ fwd.caller = "none")
    /\ (pc = "backward" => model.grad = {} /\ fwd.caller = "train" /\ fwd.grad)
    /\ (pc = "opt_step" =>
          model.grad = {[epoch |-> tr.it, batch |-> tr.i, params |-> model.params]})
    /\ (pc = "returned" => Len(steps) = tr.epochs * tr.n_train)

(* The optimizer step of the second batch of the second epoch is done. *)
C8_Witness ==
  tr.active /\ pc = "record" /\ tr.it = 1 /\ tr.i = 1 /\ Len(steps) = 4

IsEpochLine(r) == r.kind = "epoch"
EpochLines == SelectSeq(stdout, IsEpochLine)

(* What each step of batch_gh does to the accumulators and to the stored   *)
(* records.                                                                *)
AccumulatorSteps ==
  /\ (pc = "epoch_head" /\ pc' = "train_iter") => tr'.train_loss = <<>>
  /\ (pc = "record" /\ pc' = "train_iter") =>
       tr'.train_loss = tr.train_loss \o <<tr.loss>>
  /\ (pc = "eval_record" /\ pc' = "eval_iter") =>
       tr'.test_loss = tr.test_loss \o <<tr.loss>>
  /\ (pc = "train_iter" /\ pc' = "eval_iter") =>
       /\ tr'.train_loss = [num |-> Sum(tr.train_loss), den |-> Len(tr.train_loss)]
       /\ tr'.test_loss = <<>>
  /\ (pc = "eval_iter" /\ pc' = "save") =>
       tr'.test_loss = [num |-> Sum(tr.test_loss), den |-> Len(tr.test_loss)]
  /\ (pc = "save" /\ pc' = "epoch_head") =>
       /\ tr'.train_losses[tr.it + 1] = tr.train_loss
       /\ tr'.test_losses[tr.it + 1] = tr.test_loss
  /\ (tr.active /\ tr'.active) =>
       \A e \in 1..tr.it :
         /\ tr'.train_losses[e] = tr.train_losses[e]
         /\ tr'.test_losses[e] = tr.test_losses[e]

(* C9, as the specification states it: at the start of every epoch both    *)
(* accumulators, the training one and the evaluation one, are empty.       *)
C9_BothResetAtEpochStart ==
  (tr.active /\ pc = "train_iter" /\ tr.i = 0 /\ tr.n_train > 0 /\ tr.n_test > 0) =>
    /\ tr.train_loss = <<>>
    /\ tr.it > 0 => DOMAIN tr.test_loss = {}

(* C9, amended: the training accumulator is emptied at the start of the    *)
(* epoch and the evaluation accumulator at the start of the epoch's        *)
(* evaluation pass, after the training batches; each then                  *)
(* takes one loss per batch of that pass; the mean stored for epoch e is   *)
(* the sum of the n_train (n_test) losses of that epoch's training         *)
(* (evaluation) batches over their number.  One record per epoch is stored *)
(* and printed; a stored record does not change afterwards, and the        *)
(* entries of later epochs are still zero.                                 *)
C9_EpochLosses ==
  /\ [](tr.active =>
          /\ (pc \in TrainPcs \cup {"train_iter"} => Len(tr.train_loss) = tr.i)
          /\ (pc \in EvalPcs =>
                tr.train_loss.den = tr.n_train /\ Len(tr.test_loss) = tr.j)
          /\ (pc = "save" =>
                tr.train_loss.den = tr.n_train /\ tr.test_loss.den = tr.n_test)
          /\ Len(EpochLines) = tr.it
          /\ \A e \in 1..tr.epochs :
               IF e <= tr.it
               THEN /\ tr.train_losses[e].den = tr.n_train
                    /\ tr.test_losses[e].den = tr.n_test
                    /\ EpochLines[e] = [kind |-> "epoch", epoch |-> e,
                                        train |-> tr.train_losses[e],
                                        test |-> tr.test_losses[e]]
               ELSE tr.train_losses[e] = Zero /\ tr.test_losses[e] = Zero)
  /\ [][AccumulatorSteps]_vars

(* Two epochs of two training batches and one evaluation batch, with       *)
(* different means.                                                        *)
C9_Witness ==
  /\ tr.active /\ pc = "returned" /\ tr.epochs = 2
  /\ tr.n_train = 2 /\ tr.n_test = 1
  /\ tr.train_losses[1].num = 2 /\ tr.train_losses[2].num = 0
  /\ tr.test_losses[1].num = 0 /\ tr.test_losses[2].num = 1

(* C10: the model is in training mode at every optimizer step and in       *)
(* inference mode (dropout off) in every evaluation forward pass; batch_gh *)
(* with epochs >= 1 returns with the model in inference mode; generate     *)
(* leaves the mode as it found it, so its forward passes run with dropout  *)
(* exactly when the model was in training mode at the call.                *)
C10_ModeFlag ==
  /\ \A n \in 1..Len(steps) : steps[n].training
  /\ (pc \in TrainPcs => model.training)
  /\ (fwd.caller = "train" => fwd.dropout)
  /\ (fwd.caller = "eval" => ~fwd.dropout)
  /\ (pc \in EvalPcs => ~model.training)
  /\ ((tr.active /\ pc = "returned" /\ tr.epochs >= 1) => ~model.training)
  /\ (InGenerate =>
        /\ model.training = gen.mode_before
        /\ (fwd.caller = "generate" => fwd.dropout = gen.mode_before))

(* generate called after training: its forward pass runs without dropout;  *)
(* called on the fresh model it runs with dropout.                         *)
C10_Witness ==
  /\ gen.active /\ fwd.caller = "generate"
  /\ ~fwd.dropout /\ model.params >= 3
====
